---- MODULE Spec2Model ----
(***************************************************************************)
(* Shared state, file reducer and task delegation of deep_agents_libs:     *)
(* state.py (Todo, file_reducer, DeepAgentState), file_tools.py,           *)
(* todo_tools.py, research_tools.py (tavily_search), task_tool.py          *)
(* (_create_task_tool, task) and the top-level invocation of big.py.       *)
(*                                                                         *)
(* A ReAct run alternates a model turn (the LLM, an input of the model)    *)
(* and a tools step.  Every tool call of one model turn runs in the same   *)
(* tools step, each call on its own thread; the updates the calls return   *)
(* are applied to the run's channels, in call order, when all of them have *)
(* returned.                                                               *)
(***************************************************************************)
EXTENDS Integers, Sequences, FiniteSets, TLC

\* ------------------------------------------------------------------ bounds
NumPaths == 2
NumContents == 2
MaxBatch == 2
\* config={"recursion_limit": 50} of big.py, scaled down: the number of
\* steps (a model turn is one step, a tools step is one step) a run may take
recursion_limit == 3

\* characters of a file content
MaxLen == 3
\* lines[i][:2000] of read_file, scaled down: the characters kept of a line
LineCut == 2
\* entries of a todo list
MaxTodos == 2
\* write_todos calls in a row
MaxWrites == 2
\* limit: int = 2000 of read_file
DefaultLimit == 2000

Paths == 1..NumPaths
Contents == 1..NumContents

\* ------------------------------------------------------------- data model
\* status: Literal["pending", "in_progress", "completed"]; the annotation is
\* not enforced at run time, so any other string passes through ("other").
Statuses == {"pending", "in_progress", "completed", "other"}

Todo == [content : {1}, status : Statuses]

TodoLists == UNION {[1..n -> Todo] : n \in 0..MaxTodos}


EmptyMap == [p \in {} |-> 0]

\* A dict[str, str] value, or None / a missing key (present = FALSE).
NoFiles == [present |-> FALSE, map |-> EmptyMap]

SomeFiles(m) == [present |-> TRUE, map |-> m]

FileMaps == UNION {[D -> Contents] : D \in SUBSET Paths}

OptFiles == {NoFiles} \cup {SomeFiles(m) : m \in FileMaps}

\* todos: NotRequired[list[Todo]]
NoTodos == [present |-> FALSE, list |-> <<>>]

SomeTodos(l) == [present |-> TRUE, list |-> l]

\* A message: its type (human, ai, tool), its content and, for a tool
\* message, the id of the call it answers (0 otherwise).
Message(type, content, id) == [type |-> type, content |-> content, tool_call_id |-> id]

HumanMessage(content) == Message("human", content, 0)

AIMessage(content) == Message("ai", content, 0)

ToolMessage(content, tool_call_id) == Message("tool", content, tool_call_id)

\* state.get("files", {})
GetFiles(state) == IF state.files.present THEN state.files.map ELSE EmptyMap

\* state.get("todos", [])
GetTodos(state) == IF state.todos.present THEN state.todos.list ELSE <<>>

\* ---------------------------------------------------------------- state.py
\* file_reducer with {**right, **left}: the left side wins.
file_reducer_left_wins(left, right) ==
    IF ~left.present THEN right
    ELSE IF ~right.present THEN left
    ELSE SomeFiles([k \in (DOMAIN left.map) \cup (DOMAIN right.map) |->
                       IF k \in DOMAIN left.map THEN left.map[k] ELSE right.map[k]])

\* file_reducer that replaces the mapping instead of merging it.
file_reducer_replace(left, right) ==
    IF ~left.present THEN right
    ELSE IF ~right.present THEN left
    ELSE right

file_reducer(left, right) ==
    IF ~left.present THEN right
    ELSE IF ~right.present THEN left
    ELSE SomeFiles([k \in (DOMAIN left.map) \cup (DOMAIN right.map) |->
                       IF k \in DOMAIN right.map THEN right.map[k] ELSE left.map[k]])

\* A Command's update: the keys it carries (hasFiles, hasTodos) and their
\* values; messages is the list of messages to add.
Update(hasFiles, files, hasTodos, todos, messages) ==
    [hasFiles |-> hasFiles, files |-> files,
     hasTodos |-> hasTodos, todos |-> todos, messages |-> messages]

\* DeepAgentState's channels: messages are added to the end (AgentState),
\* todos has no reducer (the last value replaces it), files goes through
\* file_reducer.
ApplyUpdate(state, update) ==
    [messages |-> state.messages \o update.messages,
     todos    |-> IF update.hasTodos THEN update.todos ELSE state.todos,
     files    |-> IF update.hasFiles THEN file_reducer(state.files, update.files)
                  ELSE state.files]

\* What a tool returns: a Command with an update, or a text, which the tools
\* step wraps in a ToolMessage.
Text(message) == [message |-> message, subagent_type |-> "", allowed |-> <<>>]

NoText == Text("")

NoUpdate == Update(FALSE, NoFiles, FALSE, NoTodos, <<>>)

NoReturn == [kind |-> "none", text |-> NoText, update |-> NoUpdate]

ReturnCommand(update) == [kind |-> "command", text |-> NoText, update |-> update]

ReturnText(text) == [kind |-> "text", text |-> text, update |-> NoUpdate]

\* ----------------------------------------------------------- file_tools.py
\* files = state.get("files", {}); files[file_path] = content: the dict of
\* the state is changed in place when the state has one; a state without
\* "files" gets a fresh dict that is not stored in it.
SetFile(state, file_path, content) ==
    IF state.files.present
    THEN [state EXCEPT !.files.map =
             [k \in (DOMAIN state.files.map) \cup {file_path} |->
                 IF k = file_path THEN content ELSE state.files.map[k]]]
    ELSE state

\* A write that leaves a key that is already there as it is.
FilesAfterSet_keep(state, file_path, content) ==
    [k \in (DOMAIN GetFiles(state)) \cup {file_path} |->
        IF k \in DOMAIN GetFiles(state) THEN GetFiles(state)[k] ELSE content]

FilesAfterSet(state, file_path, content) ==
    [k \in (DOMAIN GetFiles(state)) \cup {file_path} |->
        IF k = file_path THEN content ELSE GetFiles(state)[k]]

\* write_file: the state after the call, and the Command returned.
write_file(file_path, content, state, tool_call_id) ==
    [state  |-> SetFile(state, file_path, content),
     return |-> ReturnCommand(Update(TRUE, SomeFiles(FilesAfterSet(state, file_path, content)),
                                     FALSE, NoTodos,
                                     <<ToolMessage(<<"Updated file", file_path>>, tool_call_id)>>))]

\* A str is the sequence of its characters.  "\n" and "\r" are the line
\* boundaries the contents have here, "\r\n" being one boundary.
LineBreaks == {"\n", "\r"}

Chars == {"a"} \cup LineBreaks

Strings == UNION {[1..n -> Chars] : n \in 0..MaxLen}

RECURSIVE SplitFrom(_, _, _)
\* The lines of s from character i on, cur being the line read so far.
SplitFrom(s, i, cur) ==
    IF i > Len(s) THEN (IF cur = <<>> THEN <<>> ELSE <<cur>>)
    ELSE IF s[i] = "\r" /\ i < Len(s) /\ s[i + 1] = "\n"
         THEN <<cur>> \o SplitFrom(s, i + 2, <<>>)
    ELSE IF s[i] \in LineBreaks THEN <<cur>> \o SplitFrom(s, i + 1, <<>>)
    ELSE SplitFrom(s, i + 1, Append(cur, s[i]))

\* content.splitlines(): the boundaries are dropped, and a boundary at the
\* end of the content starts no further line.
splitlines(content) == SplitFrom(content, 1, <<>>)

\* A line that is not cut.
Truncate_none(line) == line

\* lines[i][:2000]
Truncate(line) == SubSeq(line, 1, IF Len(line) < LineCut THEN Len(line) ELSE LineCut)

RECURSIVE Decimal(_)
\* str(k) of an integer
Decimal(k) ==
    IF k < 0 THEN <<"-">> \o Decimal(0 - k)
    ELSE IF k < 10 THEN <<<<"0", "1", "2", "3", "4", "5", "6", "7", "8", "9">>[k + 1]>>
    ELSE Decimal(k \div 10) \o Decimal(k % 10)

\* f"{k:6d}": right-aligned in six columns, wider when it needs to be
Format6d(k) ==
    LET digits == Decimal(k)
    IN  [j \in 1..(IF Len(digits) < 6 THEN 6 - Len(digits) ELSE 0) |-> " "] \o digits

\* lines[i] of a list: a negative index counts from the end
ListIndexOk(lines, i) == (0 - Len(lines)) <= i /\ i < Len(lines)

ListIndex(lines, i) == IF i >= 0 THEN lines[i + 1] ELSE lines[Len(lines) + i + 1]

\* f"{i + 1:6d}\t{line_content}"
NumberedLine(lines, i) == Format6d(i + 1) \o <<"\t">> \o Truncate(ListIndex(lines, i))

RECURSIVE Join(_, _)
\* sep.join(parts)
Join(sep, parts) ==
    IF parts = <<>> THEN <<>>
    ELSE IF Len(parts) = 1 THEN parts[1]
    ELSE parts[1] \o sep \o Join(sep, Tail(parts))

\* What read_file gives back: a text of one of four kinds ("not_found",
\* "empty", "offset", "content"), or an exception that leaves the function
\* ("raise").
ReadResult(kind, file_path, offset, count, text) ==
    [kind |-> kind, file_path |-> file_path, offset |-> offset, count |-> count, text |-> text]

Min(a, b) == IF a < b THEN a ELSE b

\* read_file(file_path, state, offset, limit)
read_file(file_path, state, offset, limit) ==
    LET files == GetFiles(state)
    IN  IF file_path \notin DOMAIN files
        THEN ReadResult("not_found", file_path, 0, 0, <<>>)
        ELSE IF files[file_path] = <<>>
        THEN ReadResult("empty", 0, 0, 0, <<>>)
        ELSE LET lines == splitlines(files[file_path])
                 start_idx == offset
                 end_idx == Min(start_idx + limit, Len(lines))
             IN  IF start_idx >= Len(lines)
                 THEN ReadResult("offset", 0, offset, Len(lines), <<>>)
                 ELSE IF \E i \in start_idx..(end_idx - 1) : ~ListIndexOk(lines, i)
                 THEN ReadResult("raise", 0, 0, 0, <<"IndexError">>)
                 ELSE ReadResult("content", 0, 0, 0,
                                 Join(<<"\n">>,
                                      [j \in 1..(IF end_idx > start_idx
                                                 THEN end_idx - start_idx ELSE 0) |->
                                          NumberedLine(lines, start_idx + j - 1)]))

\* ----------------------------------------------------------- todo_tools.py
write_todos(todos, tool_call_id) ==
    ReturnCommand(Update(FALSE, NoFiles, TRUE, SomeTodos(todos),
                         <<ToolMessage(<<"Updated todo list", Len(todos)>>, tool_call_id)>>))

\* A marker that is the pending one for any status it does not know.
status_emoji_get_pending(status) ==
    CASE status = "in_progress" -> "arrows"
      [] status = "completed" -> "check"
      [] OTHER -> "hourglass"

\* status_emoji.get(todo["status"], fallback): the hourglass, arrows and
\* check-mark emoji, and the question-mark emoji for any other status
status_emoji_get(status) ==
    CASE status = "pending" -> "hourglass"
      [] status = "in_progress" -> "arrows"
      [] status = "completed" -> "check"
      [] OTHER -> "question"

\* todo["content"] as characters: content k stands for a text of k characters
ContentChars(content) == [j \in 1..content |-> "a"]

\* f"{i}. {emoji} {todo['content']} ({todo['status']})\n"
TodoLine(i, todo) ==
    Decimal(i) \o <<".", " ", status_emoji_get(todo.status), " ">>
        \o ContentChars(todo.content) \o <<" ", "(", todo.status, ")", "\n">>

Whitespace == {" ", "\t", "\n", "\r"}

RECURSIVE strip(_)
\* text.strip()
strip(text) ==
    IF text = <<>> THEN text
    ELSE IF text[1] \in Whitespace THEN strip(Tail(text))
    ELSE IF text[Len(text)] \in Whitespace THEN strip(SubSeq(text, 1, Len(text) - 1))
    ELSE text

RECURSIVE TodoLines(_, _)
\* the lines of entries i .. len(todos), one after the other
TodoLines(todos, i) ==
    IF i > Len(todos) THEN <<>> ELSE TodoLine(i, todos[i]) \o TodoLines(todos, i + 1)

\* read_todos(state)
read_todos(state) ==
    LET todos == GetTodos(state)
    IN  IF todos = <<>>
        THEN ReadResult("no_todos", 0, 0, 0, <<"No todos currently in the list.">>)
        ELSE ReadResult("todos", 0, 0, 0,
                        strip(<<"Current TODO List:", "\n">> \o TodoLines(todos, 1)))

\* ------------------------------------------------------- research_tools.py
\* tavily_search: each processed result is stored as files[filename]; the
\* results (found: one result with that file name and content, or none) are
\* the search provider's answer.
tavily_search(found, filename, file_content, state, tool_call_id) ==
    [state  |-> IF found THEN SetFile(state, filename, file_content) ELSE state,
     return |-> ReturnCommand(Update(TRUE,
                                     SomeFiles(IF found
                                               THEN FilesAfterSet(state, filename, file_content)
                                               ELSE GetFiles(state)),
                                     FALSE, NoTodos,
                                     <<ToolMessage(<<"Found results", IF found THEN 1 ELSE 0>>,
                                                   tool_call_id)>>))]

\* process_search_results: the file name of a result ends in a fresh uid, so
\* the result of call i has a name no other file has.
ResultFile(i) == NumPaths + i

think_tool(reflection) == ReturnText(Text("Reflection recorded"))

\* ---------------------------------------------------------------- big.py
\* The tools and the sub-agents _create_task_tool is given.  big.py passes
\* [tavily_search, think_tool] and the research-agent; the function takes
\* any tool list and any sub-agent list, and a sub-agent without "tools"
\* gets every tool of the list.
\* A tool list that has the task tool in it.
tools_with_task == <<"tavily_search", "think_tool", "write_todos", "write_file", "task">>

tools == <<"tavily_search", "think_tool", "write_todos", "write_file">>

research_sub_agent ==
    [name |-> "research-agent", hasTools |-> TRUE, tools |-> <<"tavily_search", "think_tool">>]

general_sub_agent ==
    [name |-> "general-purpose", hasTools |-> FALSE, tools |-> <<>>]

subagents == <<research_sub_agent, general_sub_agent>>

Range(seq) == {seq[j] : j \in 1..Len(seq)}

\* ------------------------------------------------------------ task_tool.py
\* agents[_agent["name"]] = create_react_agent(model, tools=_tools, ...):
\* the tools each registered sub-agent is built with.
create_task_tool(tools_, subagents_) ==
    [n \in {subagents_[j].name : j \in 1..Len(subagents_)} |->
        LET a == subagents_[CHOOSE j \in 1..Len(subagents_) :
                                /\ subagents_[j].name = n
                                /\ \A h \in (j + 1)..Len(subagents_) : subagents_[h].name # n]
        IN  IF a.hasTools THEN {t \in Range(tools_) : t \in Range(a.tools)}
            ELSE Range(tools_)]

agents == create_task_tool(tools, subagents)

\* allowed_types that leaves the last registered name out.
allowed_types_short(subagents_) == [j \in 1..(Len(subagents_) - 1) |-> subagents_[j].name]

\* [f"`{k}`" for k in agents]: the registered names, in registration order.
allowed_types(subagents_) == [j \in 1..Len(subagents_) |-> subagents_[j].name]

\* if subagent_type not in agents: return f"Error: ... {allowed}"
task_error(subagent_type) ==
    ReturnText([message |-> "Error: invoked agent of type",
                subagent_type |-> subagent_type,
                allowed |-> allowed_types(subagents)])

\* state["messages"] = [{"role": "user", "content": description}]
task_isolate(state, description) ==
    [state EXCEPT !.messages = <<HumanMessage(<<"task", description>>)>>]

EmptyState == [messages |-> <<>>, todos |-> NoTodos, files |-> NoFiles]

NoRun == [name |-> "", input |-> EmptyState, state |-> EmptyState, steps |-> 0, status |-> "none"]

\* sub_agent.invoke(state): a new run of the named sub-agent whose channels
\* are filled from state; its step counter starts at 0 (no config is passed).
sub_agent_invoke(name, state) ==
    [name |-> name, input |-> state,
     state |-> [messages |-> state.messages, todos |-> state.todos, files |-> state.files],
     steps |-> 0, status |-> "agent"]

\* task_return that hands the sub-agent's whole transcript to the parent.
task_return_transcript(result, tool_call_id) ==
    [kind |-> "command", text |-> NoText,
     update |-> [hasFiles |-> TRUE, files |-> SomeFiles(GetFiles(result)),
                 hasTodos |-> FALSE, todos |-> NoTodos,
                 messages |-> result.messages]]

\* task_return that also hands the sub-agent's todos to the parent.
task_return_todos(result, tool_call_id) ==
    [kind |-> "command", text |-> NoText,
     update |-> [hasFiles |-> TRUE, files |-> SomeFiles(GetFiles(result)),
                 hasTodos |-> TRUE, todos |-> result.todos,
                 messages |-> <<ToolMessage(result.messages[Len(result.messages)].content,
                                            tool_call_id)>>]]

\* return Command(update={"files": result.get("files", {}),
\*     "messages": [ToolMessage(result["messages"][-1].content, tool_call_id)]})
task_return(result, tool_call_id) ==
    ReturnCommand(Update(TRUE, SomeFiles(GetFiles(result)), FALSE, NoTodos,
                         <<ToolMessage(result.messages[Len(result.messages)].content,
                                       tool_call_id)>>))

\* --------------------------------------------------------------- the runs
VARIABLES
    shared,   \* whether the calls of one tools step are handed one state object
    parent,   \* the channels of the top-level run: messages, todos, files
    ppc,      \* the top-level run: "agent", "tools", "done", "limit"
    psteps,   \* model turns the top-level run has taken
    calls,    \* the tool calls of the current (or last) tools step
    cpc,      \* each call: "ready", "isolated", "running", "returned"
    snap,     \* the state the tools step read from the channels
    given,    \* the state objects handed to the calls (InjectedState)
    sub,      \* each task call's sub-agent run
    ret,      \* what each call returned
    total,    \* model turns taken by the top-level run and all sub-agent runs
    left,     \* file_reducer applied on its own: its arguments,
    right,
    third,    \* a later update,
    merged,   \* the result so far,
    rpc,      \* and how far the application went: "args", "merged", "folded"
    tstate,   \* the built-in tools called one after the other: the channels,
    tbefore,  \* the channels before the first call kept in tcalls,
    tcalls,   \* the calls kept: a write and the read after it, or the last call
    tout,     \* what the last call returned,
    tpc       \* and where the sequence is: "files", "written", "read", "todos"

runVars == <<shared, parent, ppc, psteps, calls, cpc, snap, given, sub, ret, total>>

toolVars == <<tstate, tbefore, tcalls, tout, tpc>>

pureVars == <<left, right, third, merged, rpc, toolVars>>

vars == <<runVars, pureVars>>

Call(tool, subagent_type, description, file_path, content, todos) ==
    [tool |-> tool, subagent_type |-> subagent_type, description |-> description,
     file_path |-> file_path, content |-> content, todos |-> todos]

SubagentTypes == (DOMAIN agents) \cup {"nonexistent"}

\* The task calls of one model turn: each names a sub-agent type and has a
\* description of its own (its position stands for the text).
TaskBatches ==
    UNION {{[i \in 1..n |-> Call("task", names[i], i, 0, 0, <<>>)] :
               names \in [1..n -> SubagentTypes]} : n \in 1..MaxBatch}

WriteFileCalls == {Call("write_file", "", 0, p, c, <<>>) : p \in Paths, c \in Contents}

\* The lists the agents write in a run.
TodoArgs == {<<>>, <<[content |-> 1, status |-> "completed"]>>}

WriteTodosCalls == {Call("write_todos", "", 0, 0, 0, l) : l \in TodoArgs}

SearchCalls == {Call("tavily_search", "", 0, 0, 0, <<>>)}

\* The tool calls of one model turn of the top-level agent: one call of a
\* built-in tool, or up to MaxBatch task calls (the prompt asks for parallel
\* task calls, at most max_concurrent_research_units of them).
Batches ==
    {<<c>> : c \in WriteFileCalls \cup WriteTodosCalls \cup SearchCalls}
    \cup TaskBatches

\* The state object call i works on.
Obj(i) == IF shared THEN 1 ELSE i

\* The state the top-level invocation starts from: agent.invoke(input).
\* big.py passes the messages alone; a caller that continues earlier work
\* passes its todos and files too.
InitStates ==
    {[messages |-> <<HumanMessage(<<"user", 0>>)>>, todos |-> NoTodos, files |-> NoFiles],
     [messages |-> <<HumanMessage(<<"user", 0>>)>>,
      todos |-> SomeTodos(<<[content |-> 1, status |-> "in_progress"]>>),
      files |-> SomeFiles([p \in {1} |-> 1])]}

PureIdle ==
    /\ left = NoFiles
    /\ right = NoFiles
    /\ third = NoFiles
    /\ merged = NoFiles
    /\ rpc = "off"

NoOut == ReadResult("none", 0, 0, 0, <<>>)

ToolIdle ==
    /\ tstate = EmptyState
    /\ tbefore = EmptyState
    /\ tcalls = <<>>
    /\ tout = NoOut
    /\ tpc = "off"

Init ==
    /\ PureIdle
    /\ ToolIdle
    /\ shared \in BOOLEAN
    /\ parent \in InitStates
    /\ ppc = "agent"
    /\ psteps = 0
    /\ calls = <<>>
    /\ cpc = <<>>
    /\ snap = EmptyState
    /\ given = <<>>
    /\ sub = <<>>
    /\ ret = <<>>
    /\ total = 0

\* A model turn may call tools only when the limit leaves room for the turn,
\* the tools step and a further turn to read the results.
MayCallTools(steps) == steps + 3 <= recursion_limit

\* The top-level agent answers: the run ends.
ParentFinal ==
    /\ ppc = "agent"
    /\ psteps < recursion_limit
    /\ parent' = [parent EXCEPT !.messages = Append(@, AIMessage(<<"answer", psteps + 1>>))]
    /\ ppc' = "done"
    /\ psteps' = psteps + 1
    /\ total' = total + 1
    /\ UNCHANGED <<pureVars, shared, calls, cpc, snap, given, sub, ret>>

\* The top-level agent calls tools: the tools step reads the channels and
\* hands the state to every call.
ParentCalls ==
    /\ ppc = "agent"
    /\ MayCallTools(psteps)
    /\ \E batch \in Batches :
        LET state == [parent EXCEPT !.messages =
                         Append(@, AIMessage(<<"tool_calls", psteps + 1>>))]
        IN  /\ parent' = state
            /\ snap' = state
            /\ calls' = batch
            /\ cpc' = [i \in 1..Len(batch) |-> "ready"]
            /\ given' = [i \in 1..Len(batch) |-> state]
            /\ sub' = [i \in 1..Len(batch) |-> NoRun]
            /\ ret' = [i \in 1..Len(batch) |-> NoReturn]
    /\ ppc' = "tools"
    /\ psteps' = psteps + 1
    /\ total' = total + 1
    /\ UNCHANGED <<pureVars, shared>>

\* The top-level agent wants tools but no turn remains: the invocation ends
\* with the recursion limit exceeded and returns no state.
ParentLimit ==
    /\ ppc = "agent"
    /\ psteps < recursion_limit
    /\ ~MayCallTools(psteps)
    /\ ppc' = "limit"
    /\ psteps' = psteps + 1
    /\ total' = total + 1
    /\ parent' = EmptyState
    /\ calls' = <<>>
    /\ cpc' = <<>>
    /\ snap' = EmptyState
    /\ given' = <<>>
    /\ sub' = <<>>
    /\ ret' = <<>>
    /\ UNCHANGED <<pureVars, shared>>

Ready(i, tool) ==
    /\ ppc = "tools"
    /\ i \in 1..Len(calls)
    /\ cpc[i] = "ready"
    /\ calls[i].tool = tool

Returns(i, state, return) ==
    /\ given' = [given EXCEPT ![Obj(i)] = state]
    /\ ret' = [ret EXCEPT ![i] = return]
    /\ cpc' = [cpc EXCEPT ![i] = "returned"]
    /\ UNCHANGED <<pureVars, shared, parent, ppc, psteps, calls, snap, sub, total>>

RunWriteFile(i) ==
    /\ Ready(i, "write_file")
    /\ LET r == write_file(calls[i].file_path, calls[i].content, given[Obj(i)], i)
       IN  Returns(i, r.state, r.return)

RunWriteTodos(i) ==
    /\ Ready(i, "write_todos")
    /\ Returns(i, given[Obj(i)], write_todos(calls[i].todos, i))

RunSearch(i) ==
    /\ Ready(i, "tavily_search")
    /\ \E found \in BOOLEAN, file_content \in Contents :
        LET r == tavily_search(found, ResultFile(i), file_content, given[Obj(i)], i)
        IN  Returns(i, r.state, r.return)

\* task, unknown sub-agent: the error text is returned before anything else.
TaskUnknown(i) ==
    /\ Ready(i, "task")
    /\ calls[i].subagent_type \notin DOMAIN agents
    /\ Returns(i, given[Obj(i)], task_error(calls[i].subagent_type))

\* task, registered sub-agent: the state's messages are replaced.
TaskIsolate(i) ==
    /\ Ready(i, "task")
    /\ calls[i].subagent_type \in DOMAIN agents
    /\ given' = [given EXCEPT ![Obj(i)] = task_isolate(@, calls[i].description)]
    /\ cpc' = [cpc EXCEPT ![i] = "isolated"]
    /\ UNCHANGED <<pureVars, shared, parent, ppc, psteps, calls, snap, sub, ret, total>>

\* task: sub_agent.invoke(state) starts the sub-agent's run from the state.
TaskInvoke(i) ==
    /\ ppc = "tools"
    /\ i \in 1..Len(calls)
    /\ cpc[i] = "isolated"
    /\ sub' = [sub EXCEPT ![i] = sub_agent_invoke(calls[i].subagent_type, given[Obj(i)])]
    /\ cpc' = [cpc EXCEPT ![i] = "running"]
    /\ UNCHANGED <<pureVars, shared, parent, ppc, psteps, calls, snap, given, ret, total>>

Running(i) ==
    /\ ppc = "tools"
    /\ i \in 1..Len(calls)
    /\ cpc[i] = "running"
    /\ sub[i].status = "agent"

\* A model turn of the sub-agent and the tools step that follows it.
SubTurn(i, state, status) ==
    /\ sub' = [sub EXCEPT ![i].state = state, ![i].status = status,
                          ![i].steps = @ + 2]
    /\ total' = total + 1
    /\ UNCHANGED <<pureVars, shared, parent, ppc, psteps, calls, cpc, snap, given, ret>>

WithAI(run, content) ==
    [run.state EXCEPT !.messages = Append(@, AIMessage(<<content, run.steps + 1>>))]

\* The result of a tool call as an update of the channels.
AsUpdate(return, tool_call_id) ==
    IF return.kind = "command" THEN return.update
    ELSE Update(FALSE, NoFiles, FALSE, NoTodos,
                <<ToolMessage(<<return.text.message, 0>>, tool_call_id)>>)

SubCanCall(i, tool) ==
    /\ Running(i)
    /\ MayCallTools(sub[i].steps)
    /\ tool \in agents[sub[i].name]

\* The sub-agent calls tavily_search; its result is applied to its channels.
SubSearch(i) ==
    /\ SubCanCall(i, "tavily_search")
    /\ \E found \in BOOLEAN, file_content \in Contents :
        LET state == WithAI(sub[i], "tool_calls")
            r == tavily_search(found, ResultFile(i), file_content, state, 1)
        IN  SubTurn(i, ApplyUpdate(state, AsUpdate(r.return, 1)), "agent")

SubThink(i) ==
    /\ SubCanCall(i, "think_tool")
    /\ LET state == WithAI(sub[i], "tool_calls")
       IN  SubTurn(i, ApplyUpdate(state, AsUpdate(think_tool(0), 1)), "agent")

SubWriteTodos(i) ==
    /\ SubCanCall(i, "write_todos")
    /\ \E l \in TodoArgs :
        LET state == WithAI(sub[i], "tool_calls")
        IN  SubTurn(i, ApplyUpdate(state, AsUpdate(write_todos(l, 1), 1)), "agent")

SubWriteFile(i) ==
    /\ SubCanCall(i, "write_file")
    /\ \E file_path \in Paths, content \in Contents :
        LET state == WithAI(sub[i], "tool_calls")
            r == write_file(file_path, content, state, 1)
        IN  SubTurn(i, ApplyUpdate(state, AsUpdate(r.return, 1)), "agent")

\* The sub-agent answers: its run is over, sub_agent.invoke returns its
\* final state and task builds the Command from it.
SubFinal(i) ==
    /\ Running(i)
    /\ sub[i].steps < recursion_limit
    /\ LET result == WithAI(sub[i], "answer")
       IN  /\ sub' = [sub EXCEPT ![i].state = result, ![i].status = "done",
                                 ![i].steps = @ + 1]
           /\ ret' = [ret EXCEPT ![i] = task_return(result, i)]
    /\ cpc' = [cpc EXCEPT ![i] = "returned"]
    /\ total' = total + 1
    /\ UNCHANGED <<pureVars, shared, parent, ppc, psteps, calls, snap, given>>

\* The sub-agent wants tools but no turn remains in its own run: the run
\* fails, nothing in task catches it, and the invocation ends: the state of
\* the step and of every run in it is gone.
SubLimit(i) ==
    /\ Running(i)
    /\ sub[i].steps < recursion_limit
    /\ ~MayCallTools(sub[i].steps)
    /\ ppc' = "limit"
    /\ total' = total + 1
    /\ parent' = EmptyState
    /\ calls' = <<>>
    /\ cpc' = <<>>
    /\ snap' = EmptyState
    /\ given' = <<>>
    /\ sub' = <<>>
    /\ ret' = <<>>
    /\ UNCHANGED <<pureVars, shared, psteps>>

RECURSIVE ApplyAll(_, _, _)
\* The updates of calls i..Len(returns), applied in call order.
ApplyAll(state, returns, i) ==
    IF i > Len(returns) THEN state
    ELSE ApplyAll(ApplyUpdate(state, AsUpdate(returns[i], i)), returns, i + 1)

\* A tools step that ends as soon as one of its calls has returned.
AnyReturned(cpc_) == \E i \in 1..Len(cpc_) : cpc_[i] = "returned"

\* sub_agent.invoke(state) blocks its call, and the tools step ends when
\* every call has returned.
AllReturned(cpc_) == \A i \in 1..Len(cpc_) : cpc_[i] = "returned"

\* Every call of the tools step has returned: their updates reach the
\* channels and the top-level agent takes its next turn.
ToolsApply ==
    /\ ppc = "tools"
    /\ AllReturned(cpc)
    /\ parent' = ApplyAll(parent, ret, 1)
    /\ ppc' = "agent"
    /\ psteps' = psteps + 1
    /\ UNCHANGED <<pureVars, shared, calls, cpc, snap, given, sub, ret, total>>

Next ==
    \/ ParentFinal
    \/ ParentCalls
    \/ ParentLimit
    \/ ToolsApply
    \/ \E i \in 1..MaxBatch :
        \/ RunWriteFile(i)
        \/ RunWriteTodos(i)
        \/ RunSearch(i)
        \/ TaskUnknown(i)
        \/ TaskIsolate(i)
        \/ TaskInvoke(i)
        \/ SubFinal(i)
        \/ SubSearch(i)
        \/ SubThink(i)
        \/ SubWriteTodos(i)
        \/ SubWriteFile(i)
        \/ SubLimit(i)

Spec == Init /\ [][Next]_vars

\* ------------------------------------------------- file_reducer on its own
RunIdle ==
    /\ shared = FALSE
    /\ parent = EmptyState
    /\ ppc = "off"
    /\ psteps = 0
    /\ calls = <<>>
    /\ cpc = <<>>
    /\ snap = EmptyState
    /\ given = <<>>
    /\ sub = <<>>
    /\ ret = <<>>
    /\ total = 0

ReducerInit ==
    /\ RunIdle
    /\ ToolIdle
    /\ left \in OptFiles
    /\ right \in OptFiles
    /\ third \in OptFiles
    /\ merged = NoFiles
    /\ rpc = "args"

\* merged = file_reducer(left, right)
Merge ==
    /\ rpc = "args"
    /\ merged' = file_reducer(left, right)
    /\ rpc' = "merged"
    /\ UNCHANGED <<runVars, toolVars, left, right, third>>

\* merged = file_reducer(merged, third): the next update of the same channel
MergeThird ==
    /\ rpc = "merged"
    /\ merged' = file_reducer(merged, third)
    /\ rpc' = "folded"
    /\ UNCHANGED <<runVars, toolVars, left, right, third>>

ReducerNext ==
    \/ Merge
    \/ MergeThird

ReducerSpec == ReducerInit /\ [][ReducerNext]_vars

\* ---------------------------------------- write_file and read_file in turn
ToolCall(tool, file_path, content, offset, limit, todos) ==
    [tool |-> tool, file_path |-> file_path, content |-> content,
     offset |-> offset, limit |-> limit, todos |-> todos]

\* offset: int and limit: int are the caller's: nothing restricts their sign
Offsets == (0 - MaxLen - 1)..(MaxLen + 1)

Limits == ((0 - 1)..MaxLen) \cup {DefaultLimit}

\* The files the sequence starts from: no "files" key, an empty dict, one file.
FileStates ==
    {[messages |-> <<>>, todos |-> NoTodos, files |-> f] :
        f \in {NoFiles, SomeFiles(EmptyMap), SomeFiles([p \in {1} |-> <<"a", "\n", "a">>])}}

FileInit ==
    /\ RunIdle
    /\ PureIdle
    /\ tstate \in FileStates
    /\ tbefore = tstate
    /\ tcalls = <<>>
    /\ tout = NoOut
    /\ tpc = "files"

\* write_file is called and the Command it returns is applied.
WriteFile ==
    /\ tpc = "files"
    /\ \E file_path \in Paths, content \in Strings :
        LET r == write_file(file_path, content, tstate, 1)
        IN  /\ tstate' = ApplyUpdate(tstate, r.return.update)
            /\ tcalls' = <<ToolCall("write_file", file_path, content, 0, 0, <<>>)>>
            /\ tout' = ReadResult(r.return.kind, 0, 0, 0, <<>>)
    /\ tbefore' = tstate
    /\ tpc' = "written"
    /\ UNCHANGED <<runVars, left, right, third, merged, rpc>>

\* read_file is called: it returns a text (or raises) and no update.
ReadFile ==
    /\ tpc \in {"files", "written"}
    /\ \E file_path \in Paths, offset \in Offsets, limit \in Limits :
        /\ tout' = read_file(file_path, tstate, offset, limit)
        /\ tcalls' = Append(tcalls, ToolCall("read_file", file_path, <<>>, offset, limit, <<>>))
    /\ tpc' = "read"
    /\ UNCHANGED <<runVars, left, right, third, merged, rpc, tstate, tbefore>>

FileNext ==
    \/ WriteFile
    \/ ReadFile

FileSpec == FileInit /\ [][FileNext]_vars

\* -------------------------------------- write_todos and read_todos in turn
\* The state the sequence starts from: without todos or with one, and a file.
TodoStates ==
    {[messages |-> <<>>, todos |-> t, files |-> SomeFiles([p \in {1} |-> <<"a">>])] :
        t \in {NoTodos, SomeTodos(<<[content |-> 1, status |-> "in_progress"]>>)}}

TodoInit ==
    /\ RunIdle
    /\ PureIdle
    /\ tstate \in TodoStates
    /\ tbefore = tstate
    /\ tcalls = <<>>
    /\ tout = NoOut
    /\ tpc = "todos"

\* write_todos is called and the Command it returns is applied.
WriteTodos ==
    /\ tpc \in {"todos", "todos_read"}
    /\ Len(tstate.messages) < MaxWrites
    /\ \E todos \in TodoLists :
        LET return == write_todos(todos, 1)
        IN  /\ tstate' = ApplyUpdate(tstate, return.update)
            /\ tcalls' = <<ToolCall("write_todos", 0, <<>>, 0, 0, todos)>>
            /\ tout' = ReadResult(return.kind, 0, 0, 0, <<>>)
    /\ tpc' = "todos"
    /\ UNCHANGED <<runVars, left, right, third, merged, rpc, tbefore>>

\* read_todos is called: it returns a text and no update.
ReadTodos ==
    /\ tpc = "todos"
    /\ tout' = read_todos(tstate)
    /\ tpc' = "todos_read"
    /\ UNCHANGED <<runVars, left, right, third, merged, rpc, tstate, tbefore, tcalls>>

TodoNext ==
    \/ WriteTodos
    \/ ReadTodos

TodoSpec == TodoInit /\ [][TodoNext]_vars

\* ------------------------------------------------------------------ claims
\* The last tools step has been applied and the agent has not moved since.
Applied == ppc = "agent" /\ calls # <<>> /\ AllReturned(cpc)

IsDelegate(i) == calls[i].tool = "task" /\ calls[i].subagent_type \in DOMAIN agents

IsUnknown(i) == calls[i].tool = "task" /\ calls[i].subagent_type \notin DOMAIN agents

Completed(i) == IsDelegate(i) /\ cpc[i] = "returned" /\ sub[i].status = "done"

InProgress(i) == cpc[i] \in {"isolated", "running"}

LastContent(messages) == messages[Len(messages)].content

\* C1: a completed delegation adds exactly one message to the parent's
\* messages, a tool response with the content of the last message of the
\* sub-agent's transcript, whatever the length of that transcript: after a
\* tools step the parent has one more message per call, and the message of
\* each completed delegation is that tool response.
C1_OneToolResponse ==
    Applied =>
        /\ Len(parent.messages) = Len(snap.messages) + Len(calls)
        /\ \A i \in 1..Len(calls) :
              Completed(i) =>
                  parent.messages[Len(snap.messages) + i]
                      = ToolMessage(LastContent(sub[i].state.messages), i)

\* A delegation whose sub-agent called a tool before it answered (a
\* transcript of four messages) has been applied.
C1_Witness ==
    /\ Applied
    /\ \E i \in 1..Len(calls) :
          /\ Completed(i)
          /\ Len(sub[i].state.messages) >= 4
          /\ Len(parent.messages) = Len(snap.messages) + Len(calls)

\* C2: the state every sub-agent run starts from has exactly one user
\* message, the description of its own task call, and the files and todos
\* the parent had when it delegated.
C2_IsolatedStart ==
    \A i \in 1..Len(sub) :
        sub[i].status # "none" =>
            /\ sub[i].input.messages = <<HumanMessage(<<"task", calls[i].description>>)>>
            /\ sub[i].input.files = snap.files
            /\ sub[i].input.todos = snap.todos

\* C3: a sub-agent's run never overwrites the parent's todos or messages:
\* the parent's channels do not change while the calls run, and after a
\* tools step of task calls the todos are what they were and the earlier
\* messages are all there, in order.
C3_ParentKept ==
    /\ ppc = "tools" => parent = snap
    /\ (Applied /\ \A i \in 1..Len(calls) : calls[i].tool = "task") =>
          /\ parent.todos = snap.todos
          /\ Len(parent.messages) >= Len(snap.messages)
          /\ SubSeq(parent.messages, 1, Len(snap.messages)) = snap.messages

\* A completed delegation whose sub-agent wrote its own todos has been
\* applied.
C3_Witness ==
    /\ Applied
    /\ \E i \in 1..Len(calls) :
          /\ Completed(i)
          /\ sub[i].state.todos # snap.todos
          /\ parent.todos = snap.todos

\* Sub-agent run i changed the content of key k, or created it.
Wrote(i, k) ==
    /\ k \in DOMAIN GetFiles(sub[i].state)
    /\ k \in DOMAIN GetFiles(snap) => GetFiles(sub[i].state)[k] # GetFiles(snap)[k]

\* C4 (its last sentence, which the merge it states implies): no file
\* written during a delegation is lost: after the tools step a key that a
\* completed delegation wrote is in the parent's files, with a content that
\* a delegation of the step wrote to it.
C4_NoWriteLost ==
    Applied =>
        \A i \in 1..Len(calls) : \A k \in DOMAIN GetFiles(sub[i].state) :
            (Completed(i) /\ Wrote(i, k)) =>
                /\ k \in DOMAIN GetFiles(parent)
                /\ \E j \in 1..Len(calls) :
                      /\ Completed(j)
                      /\ Wrote(j, k)
                      /\ GetFiles(parent)[k] = GetFiles(sub[j].state)[k]

\* C5: a task call that names no registered sub-agent returns a text (no
\* update) that names the requested type and lists every registered name,
\* starts no sub-agent run, and leaves the state as it was: the state object
\* it was handed, and the parent's files and todos once the step is applied.
C5_UnknownSubAgent ==
    \A i \in 1..Len(calls) :
        (IsUnknown(i) /\ cpc[i] = "returned") =>
            /\ ret[i].kind = "text"
            /\ ret[i].update = NoUpdate
            /\ ret[i].text.subagent_type = calls[i].subagent_type
            /\ Range(ret[i].text.allowed) = DOMAIN agents
            /\ sub[i] = NoRun
            /\ (\A j \in 1..Len(calls) : IsUnknown(j)) =>
                  /\ given[Obj(i)] = snap
                  /\ Applied => (parent.files = snap.files /\ parent.todos = snap.todos)

\* A step whose only call names an unknown sub-agent has been applied.
C5_Witness ==
    /\ Applied
    /\ Len(calls) = 1
    /\ IsUnknown(1)
    /\ ret[1].kind = "text"

\* C6: file_reducer(left, right) is right when left is absent, left when
\* right is absent, and otherwise a mapping over the union of the keys in
\* which every key of right has right's content and every other key has
\* left's.
C6_MergeFiles ==
    rpc = "merged" =>
        /\ ~left.present => merged = right
        /\ (left.present /\ ~right.present) => merged = left
        /\ (left.present /\ right.present) =>
              /\ merged.present
              /\ DOMAIN merged.map = (DOMAIN left.map) \cup (DOMAIN right.map)
              /\ \A k \in DOMAIN right.map : merged.map[k] = right.map[k]
              /\ \A k \in (DOMAIN left.map) \ (DOMAIN right.map) : merged.map[k] = left.map[k]

\* Two mappings that disagree on a key, the left one with a key of its own,
\* have been merged.
C6_Witness ==
    /\ rpc = "merged"
    /\ left.present
    /\ right.present
    /\ \E k \in (DOMAIN left.map) \cap (DOMAIN right.map) : left.map[k] # right.map[k]
    /\ (DOMAIN left.map) \ (DOMAIN right.map) # {}

\* The updates folded into one mapping, later updates winning: a key has
\* the content of the last update that has it.
LastWins(updates) ==
    LET has(k) == {j \in 1..Len(updates) : updates[j].present /\ k \in DOMAIN updates[j].map}
        last(k) == CHOOSE j \in has(k) : \A h \in has(k) : h <= j
        keys == UNION {DOMAIN updates[j].map : j \in 1..Len(updates)}
    IN  IF \A j \in 1..Len(updates) : ~updates[j].present THEN NoFiles
        ELSE SomeFiles([k \in keys |-> updates[last(k)].map[k]])

\* C7: file_reducer is associative, and applying it update by update, left
\* to right, gives the mapping that merging the updates folded into one
\* (later updates winning) gives.
C7_MergeAssociative ==
    /\ file_reducer(file_reducer(left, right), third)
          = file_reducer(left, file_reducer(right, third))
    /\ rpc = "folded" => merged = file_reducer(left, LastWins(<<right, third>>))

\* Two updates that disagree on a key have been applied, one after the
\* other, to a mapping with a key of its own.
C7_Witness ==
    /\ rpc = "folded"
    /\ left.present /\ right.present /\ third.present
    /\ \E k \in (DOMAIN right.map) \cap (DOMAIN third.map) : right.map[k] # third.map[k]
    /\ (DOMAIN left.map) \ ((DOMAIN right.map) \cup (DOMAIN third.map)) # {}

SubRunsInProgress == {i \in 1..Len(calls) : cpc[i] = "running" /\ sub[i].status = "agent"}

C9_TotalWithinLimit == total <= recursion_limit

\* C10: no tool changes the state it was handed: the files and the messages
\* of every state object of a tools step stay what the step read.
C10_InputStateKept ==
    \A o \in 1..Len(given) :
        /\ given[o].files = snap.files
        /\ given[o].messages = snap.messages

\* The call whose result is in tout, and what it was about.
LastCall == tcalls[Len(tcalls)]

ReadFiles == GetFiles(tstate)

ReadContent == ReadFiles[LastCall.file_path]

RECURSIVE SplitOn(_, _, _, _)
\* text.split(sep) from character i on, cur being the piece read so far.
SplitOn(text, sep, i, cur) ==
    IF i > Len(text) THEN <<cur>>
    ELSE IF text[i] = sep THEN <<cur>> \o SplitOn(text, sep, i + 1, <<>>)
    ELSE SplitOn(text, sep, i + 1, Append(cur, text[i]))

\* The first m characters of a line.
Prefix(line, m) == [k \in 1..Min(Len(line), m) |-> line[k]]

\* C11: read_file never raises and never changes the state; a path that is
\* not in files gives the not-found text, a path with empty content the
\* empty-file notice whatever the offset, and otherwise an offset at or
\* beyond the number of lines gives the offset text, which names the offset
\* and the number of lines.
C11_ReadFileOutcomes ==
    tpc = "read" =>
        /\ tout.kind # "raise"
        /\ LastCall.file_path \notin DOMAIN ReadFiles =>
              tout = ReadResult("not_found", LastCall.file_path, 0, 0, <<>>)
        /\ (LastCall.file_path \in DOMAIN ReadFiles /\ ReadContent = <<>>) =>
              tout = ReadResult("empty", 0, 0, 0, <<>>)
        /\ (/\ LastCall.file_path \in DOMAIN ReadFiles
            /\ ReadContent # <<>>
            /\ LastCall.offset >= Len(splitlines(ReadContent))) =>
              tout = ReadResult("offset", 0, LastCall.offset,
                                Len(splitlines(ReadContent)), <<>>)

\* C12: for a file of n >= 1 lines and 0 <= offset < n, read_file returns
\* the lines offset .. min(offset + limit, n) - 1 and no other, in order,
\* one per line of the text, each after its position in the file (offset + 1
\* for the first) and a tab, each cut to LineCut characters; a limit that
\* reaches beyond the end is no error, and offset = n - 1 with a limit of at
\* least 1 returns the last line alone.
C12_ReadSlice ==
    (/\ tpc = "read"
     /\ LastCall.file_path \in DOMAIN ReadFiles
     /\ ReadContent # <<>>
     /\ 0 <= LastCall.offset
     /\ LastCall.offset < Len(splitlines(ReadContent))) =>
        LET lines == splitlines(ReadContent)
            n == Len(lines)
            offset == LastCall.offset
            last == Min(offset + LastCall.limit, n) - 1
            count == IF last >= offset THEN last - offset + 1 ELSE 0
            out == SplitOn(tout.text, "\n", 1, <<>>)
        IN  /\ tout.kind = "content"
            /\ count = 0 => tout.text = <<>>
            /\ count > 0 =>
                  /\ Len(out) = count
                  /\ \A j \in 1..count :
                        out[j] = Format6d(offset + j) \o <<"\t">>
                                     \o Prefix(lines[offset + j], LineCut)
            /\ (offset = n - 1 /\ LastCall.limit >= 1) =>
                  out = <<Format6d(n) \o <<"\t">> \o Prefix(lines[n], LineCut)>>

\* A file of two lines or more has been read from its second line on, with
\* a limit that reaches beyond its end.
C12_Witness ==
    /\ tpc = "read"
    /\ tout.kind = "content"
    /\ LastCall.offset = 1
    /\ LastCall.limit < DefaultLimit
    /\ LastCall.offset + LastCall.limit > Len(splitlines(ReadContent))
    /\ Len(SplitOn(tout.text, "\n", 1, <<>>)) = Len(splitlines(ReadContent)) - 1

\* A write_file call has been applied, and perhaps read back.
Written == tpc = "written" \/ (tpc = "read" /\ Len(tcalls) = 2)

\* The file just written has been read back with read_file(path, 0, 2000).
ReadBack ==
    /\ tpc = "read"
    /\ Len(tcalls) = 2
    /\ tcalls[1].content # <<>>
    /\ tcalls[2].file_path = tcalls[1].file_path
    /\ tcalls[2].offset = 0
    /\ tcalls[2].limit = DefaultLimit

\* After the write, files[path] is the content and every other key is as it
\* was before.
WriteApplied ==
    /\ tpc = "written" => tout.kind = "command"
    /\ tstate.files.present
    /\ DOMAIN ReadFiles = (DOMAIN GetFiles(tbefore)) \cup {tcalls[1].file_path}
    /\ ReadFiles[tcalls[1].file_path] = tcalls[1].content
    /\ \A k \in (DOMAIN GetFiles(tbefore)) \ {tcalls[1].file_path} :
          ReadFiles[k] = GetFiles(tbefore)[k]

\* C13 as stated: write_file always succeeds, sets files[path] = content and
\* keeps every other key, and read_file(path, 0, 2000) then returns the
\* lines of the content, numbered from 1.
C13_RoundTrip ==
    /\ Written => WriteApplied
    /\ ReadBack =>
          LET lines == splitlines(tcalls[1].content)
          IN  /\ tout.kind = "content"
              /\ SplitOn(tout.text, "\n", 1, <<>>)
                    = [j \in 1..Len(lines) |-> Format6d(j) \o <<"\t">> \o lines[j]]

\* C13: write_file always succeeds, sets files[path] = content and keeps
\* every other key, and read_file(path, 0, 2000) then returns the lines of
\* the content, numbered from 1, each cut to LineCut characters.
C13_RoundTripCut ==
    /\ Written => WriteApplied
    /\ ReadBack =>
          LET lines == splitlines(tcalls[1].content)
          IN  /\ tout.kind = "content"
              /\ SplitOn(tout.text, "\n", 1, <<>>)
                    = [j \in 1..Len(lines) |->
                          Format6d(j) \o <<"\t">> \o Prefix(lines[j], LineCut)]

\* A file that was there with another content has been overwritten with a
\* content of two lines and read back.
C13_Witness ==
    /\ ReadBack
    /\ tcalls[1].file_path \in DOMAIN GetFiles(tbefore)
    /\ GetFiles(tbefore)[tcalls[1].file_path] # tcalls[1].content
    /\ Len(splitlines(tcalls[1].content)) = 2
    /\ tout.kind = "content"

\* The marker each of the three statuses has, by name.
Markers == [pending |-> "hourglass", in_progress |-> "arrows", completed |-> "check"]

\* The marker of a status: its own, or the fourth one.
MarkerOf(status) == IF status \in DOMAIN Markers THEN Markers[status] ELSE "question"

\* C14: after any sequence of write_todos calls the todos are the argument
\* of the last call, entry for entry, and the files are what they were; and
\* read_todos then returns the no-todos message for an empty list and
\* otherwise, under the heading, one line per entry, in list order: the
\* entry's number from 1, the marker of its status (the fourth marker for a
\* status that is none of the three), its content and its status.
C14_TodosReplacedAndRead ==
    /\ (tpc \in {"todos", "todos_read"} /\ tcalls # <<>>) =>
          /\ tstate.todos = SomeTodos(tcalls[1].todos)
          /\ tstate.files = tbefore.files
    /\ tpc = "todos_read" =>
          LET todos == GetTodos(tstate)
              out == SplitOn(tout.text, "\n", 1, <<>>)
          IN  IF todos = <<>>
              THEN tout = ReadResult("no_todos", 0, 0, 0, <<"No todos currently in the list.">>)
              ELSE /\ tout.kind = "todos"
                   /\ Len(out) = 1 + Len(todos)
                   /\ out[1] = <<"Current TODO List:">>
                   /\ \A i \in 1..Len(todos) :
                         out[i + 1] = Decimal(i) \o <<".", " ", MarkerOf(todos[i].status), " ">>
                                         \o ContentChars(todos[i].content)
                                         \o <<" ", "(", todos[i].status, ")">>

\* A list of one entry has been replaced by a list of two, one of them with
\* a status that is none of the three, and the list has been read.
C14_Witness ==
    /\ tpc = "todos_read"
    /\ Len(tstate.messages) = 2
    /\ tstate.messages[1].content[2] = 1
    /\ Len(tcalls[1].todos) = 2
    /\ tcalls[1].todos[1].status = "other"
    /\ tcalls[1].todos[2].status = "completed"
    /\ tout.kind = "todos"

\* C15: delegation is one level deep: no sub-agent _create_task_tool builds
\* has the task tool among its tools, and every sub-agent run there is was
\* started by a task call of the top-level agent, for a registered
\* sub-agent, so the running agents are the parent alone or the parent and
\* the sub-agents of its own calls.
C15_DepthAtMostOne ==
    /\ \A name \in DOMAIN agents : "task" \notin agents[name]
    /\ Len(sub) = Len(calls)
    /\ \A i \in 1..Len(sub) :
          sub[i].status # "none" =>
              /\ calls[i].tool = "task"
              /\ sub[i].name = calls[i].subagent_type
              /\ sub[i].name \in DOMAIN agents
              /\ "task" \notin agents[sub[i].name]

\* A sub-agent that was given every tool of the list is running and has
\* called one of them.
C15_Witness ==
    \E i \in 1..Len(calls) :
        /\ cpc[i] = "running"
        /\ sub[i].name = "general-purpose"
        /\ agents[sub[i].name] = Range(tools)
        /\ sub[i].steps > 0

====
